---- MODULE Spec2Model ----
(***************************************************************************)
(* A model of the aeron-go client data path:                               *)
(*   - rb.ManyToOne, the many-producer / single-consumer ring buffer       *)
(*     (aeron/ringbuffer/manytoone.go), on top of                          *)
(*   - atomic.Buffer, the accessors over the mapped region.                *)
(*                                                                         *)
(* Every access to the shared region is one step of the process that makes *)
(* it; the computation between two accesses is local and belongs to the    *)
(* step of the access before it.  The record area is modelled byte by byte *)
(* (little-endian two's-complement int32 fields); the trailer counters     *)
(* (tail, head cache, head, correlation counter) are one variable each.    *)
(***************************************************************************)
EXTENDS Integers, Sequences, FiniteSets, TLC

----------------------------------------------------------------------------
(* Bounds of the model.                                                    *)

\* number of concurrent producers calling Write
NumProducers == 2
\* number of Write calls the producers make, all together
MaxWrites == 3
\* number of concurrent callers of NextCorrelationID
NumCallers == 3
\* number of NextCorrelationID calls over all callers
MaxCorrelationCalls == 5

\* width in bits of the Position word in the model (int64 in the code)
PositionBits == 10
\* number of threads that call Close on the Image; the first also calls Poll
NumThreads == 2
\* number of Poll calls
MaxPolls == 3
\* number of frames (padding frames included) published to the log
MaxFrames == 3

Producers == 1..NumProducers
Callers == 1..NumCallers
Threads == 1..NumThreads
\* the thread that owns the Image and polls it
Owner == 1

\* capacities (buffer.Capacity() - trailerLength) the buffer is built with
Capacities == {16, 32}
\* initial values of the correlation counter field
InitialCorrelations == {0, 7}

----------------------------------------------------------------------------
(* Descriptor constants and helpers.                                       *)

InsufficientCapacity == -2

\* RecordDescriptor.HeaderLength: [length: i32][typeId: i32]
HeaderLength == 8
\* RecordDescriptor.RecordAlignment
RecordAlignment == 8
\* RecordDescriptor.PaddingMsgTypeID
PaddingMsgTypeID == -1

\* util.AlignInt32(value, alignment): (value + (alignment - 1)) & ^(alignment - 1)
AlignInt32(value, alignment) == ((value + (alignment - 1)) \div alignment) * alignment

\* LengthOffset(recordOffset), TypeOffset(recordOffset), EncodedMsgOffset(recordOffset)
LengthOffset(recordOffset) == recordOffset
TypeOffset(recordOffset) == recordOffset + 4
EncodedMsgOffset(recordOffset) == recordOffset + HeaderLength

\* MakeHeader(length, msgTypeID): the 64-bit word whose low half is the length
\* and whose high half is the type id, kept as its two 32-bit halves
MakeHeader(len, typeId) == [lo |-> len, hi |-> typeId]

\* CheckMsgTypeID(msgTypeID): TRUE when the call panics (type id below 1)
CheckMsgTypeID(typeId) == typeId < 1

----------------------------------------------------------------------------
(* atomic.Buffer accessors over the byte image m of the region.            *)

\* byte k of the little-endian two's-complement image of the int32 v
ByteOf(v, k) ==
    CASE k = 0 -> v % 256
      [] k = 1 -> (v \div 256) % 256
      [] k = 2 -> (v \div 65536) % 256
      [] k = 3 -> (v \div 16777216) % 256

\* GetInt32Volatile
GetInt32Volatile(m, offset) ==
    LET low == m[offset] + 256 * m[offset + 1] + 65536 * m[offset + 2]
        top == m[offset + 3]
    IN  IF top >= 128 THEN low + (top - 256) * 16777216 ELSE low + top * 16777216

\* PutInt32Ordered
PutInt32Ordered(m, offset, value) ==
    [i \in DOMAIN m |->
        IF i >= offset /\ i < offset + 4 THEN ByteOf(value, i - offset) ELSE m[i]]

\* PutInt64Ordered of a header word: one atomic 8-byte store
PutInt64Ordered(m, offset, word) ==
    [i \in DOMAIN m |->
        IF i >= offset /\ i < offset + 4 THEN ByteOf(word.lo, i - offset)
        ELSE IF i >= offset + 4 /\ i < offset + 8 THEN ByteOf(word.hi, i - offset - 4)
        ELSE m[i]]

\* PutBytes(index, srcBuffer, srcIndex, length): util.Memcpy of length bytes
PutBytes(m, index, srcBuffer, srcIndex, len) ==
    [i \in DOMAIN m |->
        IF i >= index /\ i < index + len THEN srcBuffer[srcIndex + (i - index)] ELSE m[i]]

\* a compare-and-set that stores without comparing
CompareAndSetInt64_NoCompare(current, expectedValue, updateValue) ==
    <<updateValue, TRUE>>

\* a compare-and-set that stores the update even when the comparison fails
CompareAndSetInt64_StoreOnFailure(current, expectedValue, updateValue) ==
    <<updateValue, current = expectedValue>>

\* a compare-and-set that may fail although the field holds the expected value
CompareAndSetInt64_Spurious(current, expectedValue, updateValue) ==
    <<current, FALSE>>

\* CompareAndSetInt64: <<the value the field holds afterwards, the result>>
CompareAndSetInt64(current, expectedValue, updateValue) ==
    IF current = expectedValue THEN <<updateValue, TRUE>> ELSE <<current, FALSE>>

\* a fetch-add that returns the value after the addition
GetAndAddInt64_ReturnsNew(current, delta) ==
    LET newVal == current + delta IN <<newVal, newVal>>

\* GetAndAddInt64: <<the value the field holds afterwards, the value returned>>
\* newVal := atomic.AddUint64(ptr, delta); return int64(newVal) - delta
GetAndAddInt64(current, delta) ==
    LET newVal == current + delta IN <<newVal, newVal - delta>>

----------------------------------------------------------------------------
VARIABLES
    capacity,            \* ManyToOne.capacity
    mem,                 \* the record area, bytes 0 .. capacity-1
    tailPosition,        \* the counter at tailPositionIndex
    headPosition,        \* the counter at headPositionIndex
    headCachePosition,   \* the counter at headCachePositionIndex
    correlationCounter,  \* the counter at correlationIDCounterIndex
    pc,                  \* where each producer stands in Write / claimCapacity
    msgTypeID,           \* Write's msgTypeID argument, per producer
    length,              \* Write's length argument, per producer
    head,                \* claimCapacity's local head
    tail,                \* claimCapacity's local tail
    padding,             \* claimCapacity's local padding
    recordIndex,         \* what claimCapacity returned
    result,              \* how the producer's last Write ended
    writes,              \* Write calls made so far, over all producers
    touched,             \* which shared fields the current Write call has changed
    published,           \* records made visible and not yet consumed
    readOutcome,         \* how a call of ManyToOne.Read ended
    correlationInitial,  \* the correlation counter at start-up
    correlationIDs       \* the values NextCorrelationID returned, per caller

\* the Image (aeron/image.go) and the log it polls
VARIABLES
    isClosed,            \* Image.isClosed
    releases,            \* how many times logBuffers.Close() has been called
    subscriberPosition,  \* the counter behind Image.subscriberPosition
    frames,              \* the frames published to the log, by stream position
    logTail,             \* the stream position the next frame is published at
    ipc,                 \* where each thread stands in Poll / Close
    fragmentLimit,       \* Poll's fragmentLimit argument
    handlerFails,        \* whether the handler given to Poll panics when invoked
    position,            \* Poll's local position
    pollOffset,          \* Poll's local offset, returned by term.Read
    pollResult,          \* Poll's local result
    pollOutcome,         \* how the last Poll ended
    handlerCalls,        \* handler invocations made by the current Poll
    exceptionHandlerCalls, \* invocations of Image.exceptionHandler
    polls,               \* Poll calls made so far
    closeOutcome         \* how each thread's last Close ended

\* the position codec applied to one position and one shift
VARIABLES
    decodePosition,      \* the position given to indexByPosition
    decodeShift,         \* the positionBitsToShift given to indexByPosition
    decoded,             \* whether the codec has been applied
    decodeIndex,         \* indexByPosition(position, shift)
    decodeNextIndex,     \* indexByPosition(position + 2^shift, shift)
    decodeTermOffset     \* position & (2^shift - 1)

\* one access to an atomic.Buffer
VARIABLES
    accessOp,            \* which accessor was called last
    bufLength,           \* Buffer.length of the buffer accessed
    srcLength,           \* Buffer.length of PutBytes's srcBuffer
    accessIndex,         \* the accessor's offset (PutBytes: index) argument
    accessSize,          \* the number of bytes the accessor touches
    accessSrcIndex,      \* PutBytes's srcint32 argument
    accessOutcome        \* "fatal" (log.Fatal) or "performed"

rbVars == <<capacity, mem, tailPosition, headPosition, headCachePosition,
            pc, msgTypeID, length, head, tail, padding, recordIndex, result,
            writes, touched, published, readOutcome>>
corrVars == <<correlationCounter, correlationInitial, correlationIDs>>
imageVars == <<isClosed, releases, subscriberPosition, frames, logTail, ipc,
               fragmentLimit, handlerFails, position, pollOffset, pollResult,
               pollOutcome, handlerCalls, exceptionHandlerCalls, polls,
               closeOutcome>>
codecVars == <<decodePosition, decodeShift, decoded, decodeIndex,
               decodeNextIndex, decodeTermOffset>>
bufferVars == <<accessOp, bufLength, srcLength, accessIndex, accessSize, accessSrcIndex,
                accessOutcome>>
vars == <<rbVars, corrVars, imageVars, codecVars, bufferVars>>
\* what the operations of each part leave alone
nonRbVars == <<corrVars, imageVars, codecVars, bufferVars>>
nonCorrVars == <<rbVars, imageVars, codecVars, bufferVars>>
nonImageVars == <<rbVars, corrVars, codecVars, bufferVars>>
nonCodecVars == <<rbVars, corrVars, imageVars, bufferVars>>
nonBufferVars == <<rbVars, corrVars, imageVars, codecVars>>

\* ManyToOne.Init: maxMsgLength = capacity / 8, mask = capacity - 1
maxMsgLength == capacity \div 8
\* x & mask for the power-of-two capacity
MaskIndex(x) == x % capacity

\* the bytes of the source buffer a producer writes from
SrcBuffer(p) == [i \in 0..(maxMsgLength + 1) |-> 16 * p + i]

\* the arguments Write is called with
MsgTypeIDs == {0, 7}
PayloadLengths == {0, maxMsgLength, maxMsgLength + 1}

recordLength(p) == length[p] + HeaderLength
requiredCapacity(p) == AlignInt32(recordLength(p), RecordAlignment)

----------------------------------------------------------------------------
(* ManyToOne.Write and ManyToOne.claimCapacity, one step per access to the *)
(* shared region.                                                          *)

\* the length checked against the capacity instead of maxMsgLength
checkMsgLength_AgainstCapacity(len) == len > capacity

\* checkMsgLength(length): TRUE when the call panics
checkMsgLength(len) == len > maxMsgLength

\* the used bytes taken with the wrong sign
availableCapacity_SignFlipped(t, h) == capacity - (h - t)

\* availableCapacity := buf.capacity - int32(tail-head)
availableCapacity(t, h) == capacity - (t - h)

\* tailIndex = int32(tail & int64(mask))
tailIndex(p) == MaskIndex(tail[p])
\* toBufferEndLength := buf.capacity - tailIndex
toBufferEndLength(p) == capacity - tailIndex(p)

\* which fields of the shared region a step of p changes, added to touched[p]
Touch(p, fields) == touched' = [touched EXCEPT ![p] = @ \cup fields]

\* return InsufficientCapacity from claimCapacity; Write then returns false
ReturnInsufficient(p) ==
    /\ recordIndex' = [recordIndex EXCEPT ![p] = InsufficientCapacity]
    /\ result' = [result EXCEPT ![p] = "insufficient"]
    /\ pc' = [pc EXCEPT ![p] = "idle"]

\* lines 118-137 with the local head h and tail t: the padding computed from
\* the locals, or a refresh of the head when the wrapped record would not fit
\* below the cached head index
WrapCheck(p, h, t) ==
    LET tIndex == MaskIndex(t)
        toEnd == capacity - tIndex
        headIndex == MaskIndex(h)
    IN  IF requiredCapacity(p) > toEnd
        THEN IF requiredCapacity(p) > headIndex
             THEN /\ pc' = [pc EXCEPT ![p] = "wrapRefresh"]
                  /\ padding' = [padding EXCEPT ![p] = 0]
             ELSE /\ pc' = [pc EXCEPT ![p] = "cas"]
                  /\ padding' = [padding EXCEPT ![p] = toEnd]
        ELSE /\ pc' = [pc EXCEPT ![p] = "cas"]
             /\ padding' = [padding EXCEPT ![p] = 0]

\* Write, lines 156-163, and claimCapacity's fresh locals and its read of the
\* cached head, lines 98-102
Write(p, typeId, len) ==
    /\ pc[p] = "idle"
    /\ writes < MaxWrites
    /\ writes' = writes + 1
    /\ msgTypeID' = [msgTypeID EXCEPT ![p] = typeId]
    /\ length' = [length EXCEPT ![p] = len]
    /\ touched' = [touched EXCEPT ![p] = {}]
    /\ tail' = [tail EXCEPT ![p] = 0]
    /\ padding' = [padding EXCEPT ![p] = 0]
    /\ recordIndex' = [recordIndex EXCEPT ![p] = 0]
    /\ IF CheckMsgTypeID(typeId) \/ checkMsgLength(len)
       THEN /\ result' = [result EXCEPT ![p] = "panic"]
            /\ head' = [head EXCEPT ![p] = 0]
            /\ UNCHANGED pc
       ELSE /\ result' = [result EXCEPT ![p] = "running"]
            /\ head' = [head EXCEPT ![p] = headCachePosition]
            /\ pc' = [pc EXCEPT ![p] = "loop"]
    /\ UNCHANGED <<capacity, mem, tailPosition, headPosition, headCachePosition,
                   published, readOutcome,
                   nonRbVars>>

\* lines 105-108: read the live tail and compare with the local head
claimCapacity_readTail(p) ==
    /\ pc[p] = "loop"
    /\ tail' = [tail EXCEPT ![p] = tailPosition]
    /\ IF requiredCapacity(p) > availableCapacity(tailPosition, head[p])
       THEN /\ pc' = [pc EXCEPT ![p] = "refresh"]
            /\ UNCHANGED padding
       ELSE WrapCheck(p, head[p], tailPosition)
    /\ UNCHANGED <<capacity, mem, tailPosition, headPosition, headCachePosition,
                   msgTypeID, length, head, recordIndex, result, writes,
                   touched, published, readOutcome,
                   nonRbVars>>

\* lines 109-113: refresh the head from the live counter and check again
claimCapacity_refreshHead(p) ==
    /\ pc[p] = "refresh"
    /\ head' = [head EXCEPT ![p] = headPosition]
    /\ IF requiredCapacity(p) > availableCapacity(tail[p], headPosition)
       THEN ReturnInsufficient(p)
       ELSE /\ pc' = [pc EXCEPT ![p] = "storeCache"]
            /\ UNCHANGED <<recordIndex, result>>
    /\ UNCHANGED <<capacity, mem, tailPosition, headPosition, headCachePosition,
                   msgTypeID, length, tail, padding, writes, touched,
                   published, readOutcome,
                   nonRbVars>>

\* the live tail stored as the cached head
claimCapacity_storeHeadCache_StoresTail(p) ==
    /\ pc[p] = "storeCache"
    /\ headCachePosition' = tail[p]
    /\ Touch(p, IF tail[p] # headCachePosition THEN {"headCache"} ELSE {})
    /\ WrapCheck(p, head[p], tail[p])
    /\ UNCHANGED <<capacity, mem, tailPosition, headPosition,
                   msgTypeID, length, head, tail, recordIndex, result, writes,
                   published, readOutcome,
                   nonRbVars>>

\* line 115: publish the refreshed head as the cached head; then lines 118-137
claimCapacity_storeHeadCache(p) ==
    /\ pc[p] = "storeCache"
    /\ headCachePosition' = head[p]
    /\ Touch(p, IF head[p] # headCachePosition THEN {"headCache"} ELSE {})
    /\ WrapCheck(p, head[p], tail[p])
    /\ UNCHANGED <<capacity, mem, tailPosition, headPosition,
                   msgTypeID, length, head, tail, recordIndex, result, writes,
                   published, readOutcome,
                   nonRbVars>>

\* lines 126-131: the wrapped record does not fit below the local head index;
\* refresh the head and check again
claimCapacity_wrapRefreshHead(p) ==
    /\ pc[p] = "wrapRefresh"
    /\ head' = [head EXCEPT ![p] = headPosition]
    /\ IF requiredCapacity(p) > MaskIndex(headPosition)
       THEN ReturnInsufficient(p)
       ELSE /\ pc' = [pc EXCEPT ![p] = "wrapStoreCache"]
            /\ UNCHANGED <<recordIndex, result>>
    /\ UNCHANGED <<capacity, mem, tailPosition, headPosition, headCachePosition,
                   msgTypeID, length, tail, padding, writes, touched,
                   published, readOutcome,
                   nonRbVars>>

\* lines 133-136: publish the refreshed head; padding = toBufferEndLength
claimCapacity_wrapStoreHeadCache(p) ==
    /\ pc[p] = "wrapStoreCache"
    /\ headCachePosition' = head[p]
    /\ Touch(p, IF head[p] # headCachePosition THEN {"headCache"} ELSE {})
    /\ padding' = [padding EXCEPT ![p] = toBufferEndLength(p)]
    /\ pc' = [pc EXCEPT ![p] = "cas"]
    /\ UNCHANGED <<capacity, mem, tailPosition, headPosition,
                   msgTypeID, length, head, tail, recordIndex, result, writes,
                   published, readOutcome,
                   nonRbVars>>

\* line 104: CAS the tail from the value read to tail + requiredCapacity + padding;
\* on failure run the loop again; on success lines 140, 145
claimCapacity_cas(p) ==
    LET cas == CompareAndSetInt64(tailPosition, tail[p],
                                  tail[p] + requiredCapacity(p) + padding[p])
    IN  /\ pc[p] = "cas"
        /\ tailPosition' = cas[1]
        /\ Touch(p, IF cas[1] # tailPosition THEN {"tail"} ELSE {})
        /\ IF cas[2]
           THEN IF padding[p] # 0
                THEN /\ pc' = [pc EXCEPT ![p] = "padding"]
                     /\ UNCHANGED recordIndex
                ELSE /\ pc' = [pc EXCEPT ![p] = "header"]
                     /\ recordIndex' = [recordIndex EXCEPT ![p] = tailIndex(p)]
           ELSE /\ pc' = [pc EXCEPT ![p] = "loop"]
                /\ UNCHANGED recordIndex
        /\ UNCHANGED <<capacity, mem, headPosition, headCachePosition,
                       msgTypeID, length, head, tail, padding, result, writes,
                       published, readOutcome,
                   nonRbVars>>

\* the padding header stored, the returned index left at the pre-wrap tail index
claimCapacity_padding_NoReset(p) ==
    /\ pc[p] = "padding"
    /\ mem' = PutInt64Ordered(mem, tailIndex(p), MakeHeader(padding[p], PaddingMsgTypeID))
    /\ Touch(p, {"mem"})
    /\ recordIndex' = [recordIndex EXCEPT ![p] = tailIndex(p)]
    /\ published' = published \cup {[pos |-> tail[p], size |-> padding[p]]}
    /\ pc' = [pc EXCEPT ![p] = "header"]
    /\ UNCHANGED <<capacity, tailPosition, headPosition, headCachePosition,
                   msgTypeID, length, head, tail, padding, result, writes,
                   readOutcome,
                   nonRbVars>>

\* lines 140-145: store the padding record's header at the pre-wrap tail index
\* and return index 0
claimCapacity_padding(p) ==
    /\ pc[p] = "padding"
    /\ mem' = PutInt64Ordered(mem, tailIndex(p), MakeHeader(padding[p], PaddingMsgTypeID))
    /\ Touch(p, {"mem"})
    /\ recordIndex' = [recordIndex EXCEPT ![p] = 0]
    /\ published' = published \cup {[pos |-> tail[p], size |-> padding[p]]}
    /\ pc' = [pc EXCEPT ![p] = "header"]
    /\ UNCHANGED <<capacity, tailPosition, headPosition, headCachePosition,
                   msgTypeID, length, head, tail, padding, result, writes,
                   readOutcome,
                   nonRbVars>>

\* the header stored with the final, positive length at once
InProgressHeader_Positive(p) == MakeHeader(recordLength(p), msgTypeID[p])

\* the header word Write stores first, line 166
InProgressHeader(p) == MakeHeader(-recordLength(p), msgTypeID[p])

\* line 166: PutInt64Ordered(recordIndex, MakeHeader(-recordLength, msgTypeID))
Write_header(p) ==
    /\ pc[p] = "header"
    /\ mem' = PutInt64Ordered(mem, recordIndex[p], InProgressHeader(p))
    /\ Touch(p, {"mem"})
    /\ pc' = [pc EXCEPT ![p] = "payload"]
    /\ UNCHANGED <<capacity, tailPosition, headPosition, headCachePosition,
                   msgTypeID, length, head, tail, padding, recordIndex, result,
                   writes, published, readOutcome,
                   nonRbVars>>

\* line 167: PutBytes(EncodedMsgOffset(recordIndex), srcBuffer, srcIndex, length)
Write_payload(p) ==
    /\ pc[p] = "payload"
    /\ mem' = PutBytes(mem, EncodedMsgOffset(recordIndex[p]), SrcBuffer(p), 0, length[p])
    /\ Touch(p, {"mem"})
    /\ pc' = [pc EXCEPT ![p] = "publish"]
    /\ UNCHANGED <<capacity, tailPosition, headPosition, headCachePosition,
                   msgTypeID, length, head, tail, padding, recordIndex, result,
                   writes, published, readOutcome,
                   nonRbVars>>

\* the aligned length stored instead of the record length
PublishedLength_Aligned(p) == requiredCapacity(p)

\* the value Write stores in the length field to publish the record, line 168
PublishedLength(p) == recordLength(p)

\* lines 168-173: PutInt32Ordered(LengthOffset(recordIndex), recordLength); return true
Write_publish(p) ==
    /\ pc[p] = "publish"
    /\ mem' = PutInt32Ordered(mem, LengthOffset(recordIndex[p]), PublishedLength(p))
    /\ Touch(p, {"mem"})
    /\ published' = published \cup
           {[pos |-> tail[p] + padding[p], size |-> requiredCapacity(p)]}
    /\ result' = [result EXCEPT ![p] = "ok"]
    /\ pc' = [pc EXCEPT ![p] = "idle"]
    /\ UNCHANGED <<capacity, tailPosition, headPosition, headCachePosition,
                   msgTypeID, length, head, tail, padding, recordIndex,
                   writes, readOutcome,
                   nonRbVars>>

----------------------------------------------------------------------------
(* The consumer of the ring: the process at the other end of the mapped    *)
(* region, following the reader's side of the record protocol.  It takes   *)
(* the record at the head once its length field is positive, clears the    *)
(* bytes it consumed and then publishes the new head.                      *)

ConsumerRead ==
    LET headIndex == MaskIndex(headPosition)
        len == GetInt32Volatile(mem, LengthOffset(headIndex))
        size == AlignInt32(len, RecordAlignment)
    IN  /\ headPosition < tailPosition
        /\ len > 0
        /\ mem' = [i \in DOMAIN mem |->
                      IF i >= headIndex /\ i < headIndex + size THEN 0 ELSE mem[i]]
        /\ headPosition' = headPosition + size
        /\ published' = {r \in published : r.pos # headPosition}
        /\ UNCHANGED <<capacity, tailPosition, headCachePosition, pc, msgTypeID,
                       length, head, tail, padding, recordIndex, result, writes,
                       touched, readOutcome,
                   nonRbVars>>

\* ManyToOne.Read, lines 176-179: panic("Not implemented yet")
Read ==
    /\ readOutcome = "notcalled"
    /\ readOutcome' = "panic"
    /\ UNCHANGED <<capacity, mem, tailPosition, headPosition, headCachePosition,
                   pc, msgTypeID, length, head, tail, padding, recordIndex,
                   result, writes, touched, published,
                   nonRbVars>>

----------------------------------------------------------------------------
(* ManyToOne.NextCorrelationID, lines 71-73.                               *)

NextCorrelationID(c) ==
    LET r == GetAndAddInt64(correlationCounter, 1)
    IN  /\ correlationCounter < correlationInitial + MaxCorrelationCalls
        /\ correlationCounter' = r[1]
        /\ correlationIDs' = [correlationIDs EXCEPT ![c] = Append(@, r[2])]
        /\ UNCHANGED <<correlationInitial, nonCorrVars>>

----------------------------------------------------------------------------
(* The Image and its log: Poll, Close, indexByPosition (aeron/image.go).   *)
(* A frame of the log is kept by the stream position it starts at, with    *)
(* its aligned length; the publisher of the stream appends frames and pads *)
(* the end of a term.  Stream positions stay far below the width of the    *)
(* position type here.                                                     *)

ImageClosed == -1

\* logbuffer.PartitionCount
PartitionCount == 3

\* the capacity of logBuffers.Buffer(0): the term length, a power of two
TermLength == 32

\* util.NumberOfTrailingZeroes(capacity)
RECURSIVE NumberOfTrailingZeroes(_)
NumberOfTrailingZeroes(v) ==
    IF v % 2 = 1 THEN 0 ELSE 1 + NumberOfTrailingZeroes(v \div 2)

\* NewImage, lines 92-94
termLengthMask == TermLength - 1
positionBitsToShift == NumberOfTrailingZeroes(TermLength)

\* the aligned lengths of the frames published to the log
FrameLengths == {8, 24}
\* the fragmentLimit arguments Poll is called with
FragmentLimits == {0, 1, 2}

\* uint64(position): the unsigned value of the same PositionBits-wide word
ToUnsigned(x) == x % (2 ^ PositionBits)
\* the signed value of a PositionBits-wide word
ToSigned(u) ==
    IF u % (2 ^ PositionBits) >= 2 ^ (PositionBits - 1)
    THEN (u % (2 ^ PositionBits)) - 2 ^ PositionBits
    ELSE u % (2 ^ PositionBits)

\* util.FastMod3(value): value modulo the partition count
FastMod3(value) == value % PartitionCount

\* the index taken from the position itself, without the shift
indexByPosition_NoShift(pos, shift) == FastMod3(ToUnsigned(pos))

\* indexByPosition, lines 139-142:
\* term := uint64(position) >> positionBitsToShift; return util.FastMod3(term)
indexByPosition(pos, shift) == FastMod3(ToUnsigned(pos) \div (2 ^ shift))

\* line 113: termOffset := int32(position) & image.termLengthMask
TermOffset(pos, mask) == ToUnsigned(pos) % (mask + 1)

\* the closed flag read as always open
IsClosed_AlwaysOpen == FALSE

\* Image.IsClosed, lines 103-105
IsClosed == isClosed

\* atomic.Bool.CompareAndSet: <<the value the flag holds afterwards, the result>>
CompareAndSet(current, expected, update) ==
    IF current = expected THEN <<update, TRUE>> ELSE <<current, FALSE>>

\* the frame published at a stream position
HasFrame(pos) == \E f \in frames : f.pos = pos
FrameAt(pos) == CHOOSE f \in frames : f.pos = pos

\* term.Read(termBuffer, termOffset, handler, fragmentLimit, header) over the
\* term that holds stream position pos at offset off, n fragments read so far:
\* the offset reached, the fragments read, the handler invocations made and
\* whether the handler panicked
RECURSIVE termRead(_, _, _, _)
termRead(pos, off, limit, n) ==
    IF n >= limit \/ off >= TermLength \/ ~HasFrame(pos)
    THEN [offset |-> off, fragmentsRead |-> n, calls |-> n, panic |-> FALSE]
    ELSE LET f == FrameAt(pos)
         IN  IF f.padding
             THEN [offset |-> off + f.len, fragmentsRead |-> n, calls |-> n,
                   panic |-> FALSE]
             ELSE IF handlerFails
                  THEN [offset |-> off, fragmentsRead |-> n, calls |-> n + 1,
                        panic |-> TRUE]
                  ELSE termRead(pos + f.len, off + f.len, limit, n + 1)

\* the new position computed as position + offset
newPosition_AbsoluteOffset(pos, off, termOff) == pos + off

\* line 120: newPosition := position + int64(offset-termOffset)
newPosition(pos, off, termOff) == pos + (off - termOff)

\* the publisher of the stream appends a frame of aligned length len at the
\* log's tail, or pads the term to its end when the frame does not fit
Offer(len) ==
    LET tailOffset == logTail % TermLength
    IN  /\ Cardinality(frames) < MaxFrames
        /\ IF tailOffset + len > TermLength
           THEN /\ frames' = frames \cup
                       {[pos |-> logTail, len |-> TermLength - tailOffset,
                         padding |-> TRUE]}
                /\ logTail' = logTail + (TermLength - tailOffset)
           ELSE /\ frames' = frames \cup
                       {[pos |-> logTail, len |-> len, padding |-> FALSE]}
                /\ logTail' = logTail + len
        /\ UNCHANGED <<isClosed, releases, subscriberPosition, ipc,
                       fragmentLimit, handlerFails, position, pollOffset,
                       pollResult, pollOutcome, handlerCalls,
                       exceptionHandlerCalls, polls, closeOutcome,
                       nonImageVars>>

\* Poll, lines 109-111: result := ImageClosed; if !image.IsClosed() { ... }
Poll(limit, fails) ==
    /\ ipc[Owner] = "idle"
    /\ polls < MaxPolls
    /\ polls' = polls + 1
    /\ fragmentLimit' = limit
    /\ handlerFails' = fails
    /\ handlerCalls' = 0
    /\ position' = 0
    /\ pollOffset' = 0
    /\ pollResult' = ImageClosed
    /\ IF IsClosed
       THEN /\ pollOutcome' = "returned"
            /\ UNCHANGED ipc
       ELSE /\ pollOutcome' = "running"
            /\ ipc' = [ipc EXCEPT ![Owner] = "getPosition"]
    /\ UNCHANGED <<isClosed, releases, subscriberPosition, frames, logTail,
                   exceptionHandlerCalls, closeOutcome,
                   nonImageVars>>

\* line 112: position := image.subscriberPosition.get()
Poll_getPosition ==
    /\ ipc[Owner] = "getPosition"
    /\ position' = subscriberPosition
    /\ ipc' = [ipc EXCEPT ![Owner] = "termRead"]
    /\ UNCHANGED <<isClosed, releases, subscriberPosition, frames, logTail,
                   fragmentLimit, handlerFails, pollOffset, pollResult,
                   pollOutcome, handlerCalls, exceptionHandlerCalls, polls,
                   closeOutcome,
                   nonImageVars>>

\* lines 113-118: the term offset, the partition and term.Read over it.  A
\* panic of the handler unwinds term.Read and Poll (Poll has no recover and
\* never calls image.exceptionHandler).  When the log buffers have been
\* released the partition is read after its unmapping: the read faults, or
\* it finds the bytes the mapping held.
Poll_termRead ==
    LET termOffset == TermOffset(position, termLengthMask)
        r == termRead(position, termOffset, fragmentLimit, 0)
    IN  /\ ipc[Owner] = "termRead"
        /\ \/ /\ releases > 0
              /\ pollOutcome' = "fault"
              /\ ipc' = [ipc EXCEPT ![Owner] = "idle"]
              /\ UNCHANGED <<pollOffset, pollResult, handlerCalls>>
           \/ /\ handlerCalls' = r.calls
              /\ IF r.panic
                 THEN /\ pollOutcome' = "panic"
                      /\ ipc' = [ipc EXCEPT ![Owner] = "idle"]
                      /\ UNCHANGED <<pollOffset, pollResult>>
                 ELSE /\ pollOffset' = r.offset
                      /\ pollResult' = r.fragmentsRead
                      /\ ipc' = [ipc EXCEPT ![Owner] = "setPosition"]
                      /\ UNCHANGED pollOutcome
        /\ UNCHANGED <<isClosed, releases, subscriberPosition, frames, logTail,
                       fragmentLimit, handlerFails, position,
                       exceptionHandlerCalls, polls, closeOutcome,
                       nonImageVars>>

\* lines 120-126: store the new position when it is ahead; return result
Poll_setPosition ==
    LET termOffset == TermOffset(position, termLengthMask)
        newPos == newPosition(position, pollOffset, termOffset)
    IN  /\ ipc[Owner] = "setPosition"
        /\ IF newPos > position
           THEN subscriberPosition' = newPos
           ELSE UNCHANGED subscriberPosition
        /\ pollOutcome' = "returned"
        /\ ipc' = [ipc EXCEPT ![Owner] = "idle"]
        /\ UNCHANGED <<isClosed, releases, frames, logTail, fragmentLimit,
                       handlerFails, position, pollOffset, pollResult,
                       handlerCalls, exceptionHandlerCalls, polls,
                       closeOutcome,
                       nonImageVars>>

\* a Close that releases the log buffers whatever the flag holds
Close_Unconditional(t) ==
    /\ ipc[t] = "idle"
    /\ isClosed' = TRUE
    /\ ipc' = [ipc EXCEPT ![t] = "release"]
    /\ closeOutcome' = [closeOutcome EXCEPT ![t] = "running"]
    /\ UNCHANGED <<releases, subscriberPosition, frames, logTail,
                   fragmentLimit, handlerFails, position, pollOffset,
                   pollResult, pollOutcome, handlerCalls,
                   exceptionHandlerCalls, polls,
                   nonImageVars>>

\* Close, lines 131-132 and 136: image.isClosed.CompareAndSet(false, true);
\* when it fails, return the nil error
Close(t) ==
    LET cas == CompareAndSet(isClosed, FALSE, TRUE)
    IN  /\ ipc[t] = "idle"
        /\ isClosed' = cas[1]
        /\ IF cas[2]
           THEN /\ ipc' = [ipc EXCEPT ![t] = "release"]
                /\ closeOutcome' = [closeOutcome EXCEPT ![t] = "running"]
           ELSE /\ closeOutcome' = [closeOutcome EXCEPT ![t] = "nil"]
                /\ UNCHANGED ipc
        /\ UNCHANGED <<releases, subscriberPosition, frames, logTail,
                       fragmentLimit, handlerFails, position, pollOffset,
                       pollResult, pollOutcome, handlerCalls,
                       exceptionHandlerCalls, polls,
                       nonImageVars>>

\* lines 134-136: err = image.logBuffers.Close(); return err
Close_release(t, err) ==
    /\ ipc[t] = "release"
    /\ releases' = releases + 1
    /\ closeOutcome' = [closeOutcome EXCEPT ![t] = err]
    /\ ipc' = [ipc EXCEPT ![t] = "idle"]
    /\ UNCHANGED <<isClosed, subscriberPosition, frames, logTail,
                   fragmentLimit, handlerFails, position, pollOffset,
                   pollResult, pollOutcome, handlerCalls,
                   exceptionHandlerCalls, polls,
                   nonImageVars>>

----------------------------------------------------------------------------
(* The position codec: indexByPosition and the term offset, applied to one *)
(* position and to the position one partition length further on.  The     *)
(* position is a two's-complement word of PositionBits bits.               *)

\* the positions p >= 0 and the shifts s with 2^s a partition length
Positions == 0..(2 ^ (PositionBits - 1) - 1)
Shifts == 0..(PositionBits - 2)

Decode ==
    /\ ~decoded
    /\ decoded' = TRUE
    /\ decodeIndex' = indexByPosition(decodePosition, decodeShift)
    /\ decodeNextIndex' =
           indexByPosition(ToSigned(decodePosition + 2 ^ decodeShift), decodeShift)
    /\ decodeTermOffset' = TermOffset(decodePosition, 2 ^ decodeShift - 1)
    /\ UNCHANGED <<decodePosition, decodeShift, nonCodecVars>>

----------------------------------------------------------------------------
(* The bounds check of atomic.Buffer's accessors.  Offsets and lengths are *)
(* int32; index + length is Go's wrapping int32 addition.                  *)

MaxInt32 == 2147483647
MinInt32 == -MaxInt32 - 1

\* a + b in int32 arithmetic
AddInt32(a, b) ==
    IF a > 0 /\ b > MaxInt32 - a THEN (a + MinInt32) + (b + MinInt32)
    ELSE IF a < 0 /\ b < MinInt32 - a THEN (a - MinInt32) + (b - MinInt32)
    ELSE a + b

\* Buffer.BoundsCheck(index, length) on a buffer of bufLen bytes: TRUE when
\* it calls log.Fatal
BoundsCheck(index, len, bufLen) == AddInt32(index, len) > bufLen

\* the lengths of the buffers, and the arguments the accessors are given
BufferLengths == {8, 16}
AccessorSizes == {1, 2, 4, 8}
Indices == {-8, -1, 0, 4, 8, 9, 13, 16, MaxInt32 - 7, MaxInt32 - 3, MaxInt32}
CopyLengths == {0, 4, 8}

\* the fixed-size accessors, lines 195-327 (GetUInt8 .. CompareAndSetInt32):
\* buf.BoundsCheck(offset, size), then the access at bufferPtr + offset
Access(index, size) ==
    /\ accessOutcome # "fatal"
    /\ accessOp' = "accessor"
    /\ accessIndex' = index
    /\ accessSize' = size
    /\ accessSrcIndex' = 0
    /\ accessOutcome' = IF BoundsCheck(index, size, bufLength)
                        THEN "fatal" ELSE "performed"
    /\ UNCHANGED <<bufLength, srcLength, nonBufferVars>>

\* Buffer.PutBytes, lines 329-334: both bounds checks, then util.Memcpy
Buffer_PutBytes(index, srcIndex, len) ==
    /\ accessOutcome # "fatal"
    /\ accessOp' = "PutBytes"
    /\ accessIndex' = index
    /\ accessSize' = len
    /\ accessSrcIndex' = srcIndex
    /\ accessOutcome' = IF \/ BoundsCheck(index, len, bufLength)
                           \/ BoundsCheck(srcIndex, len, srcLength)
                        THEN "fatal" ELSE "performed"
    /\ UNCHANGED <<bufLength, srcLength, nonBufferVars>>

----------------------------------------------------------------------------
(* Specifications.                                                         *)

\* ManyToOne.Init over a zeroed region of one of the capacities
InitRingBuffer ==
    /\ capacity \in Capacities
    /\ mem = [i \in 0..(capacity - 1) |-> 0]
    /\ tailPosition = 0
    /\ headPosition = 0
    /\ headCachePosition = 0
    /\ pc = [p \in Producers |-> "idle"]
    /\ msgTypeID = [p \in Producers |-> 0]
    /\ length = [p \in Producers |-> 0]
    /\ head = [p \in Producers |-> 0]
    /\ tail = [p \in Producers |-> 0]
    /\ padding = [p \in Producers |-> 0]
    /\ recordIndex = [p \in Producers |-> 0]
    /\ result = [p \in Producers |-> "none"]
    /\ writes = 0
    /\ touched = [p \in Producers |-> {}]
    /\ published = {}
    /\ readOutcome = "notcalled"

\* the correlation counter field holds c when the region is mapped
InitCorrelation(c) ==
    /\ correlationInitial = c
    /\ correlationCounter = c
    /\ correlationIDs = [k \in Callers |-> <<>>]

\* NewImage, lines 82-100, over an empty log, the subscriber position at 0
InitImage ==
    /\ isClosed = FALSE
    /\ releases = 0
    /\ subscriberPosition = 0
    /\ frames = {}
    /\ logTail = 0
    /\ ipc = [t \in Threads |-> "idle"]
    /\ fragmentLimit = 0
    /\ handlerFails = FALSE
    /\ position = 0
    /\ pollOffset = 0
    /\ pollResult = 0
    /\ pollOutcome = "none"
    /\ handlerCalls = 0
    /\ exceptionHandlerCalls = 0
    /\ polls = 0
    /\ closeOutcome = [t \in Threads |-> "none"]

\* the codec not applied yet, to position pos and shift s
InitCodec(pos, s) ==
    /\ decodePosition = pos
    /\ decodeShift = s
    /\ decoded = FALSE
    /\ decodeIndex = 0
    /\ decodeNextIndex = 0
    /\ decodeTermOffset = 0

\* no access made yet to a buffer of len bytes, the source one of srcLen bytes
InitBuffer(len, srcLen) ==
    /\ accessOp = "none"
    /\ bufLength = len
    /\ srcLength = srcLen
    /\ accessIndex = 0
    /\ accessSize = 0
    /\ accessSrcIndex = 0
    /\ accessOutcome = "none"

Init ==
    /\ InitRingBuffer
    /\ InitCorrelation(0)
    /\ InitImage
    /\ InitCodec(0, 0)
    /\ InitBuffer(0, 0)

Next ==
    \/ \E p \in Producers, t \in MsgTypeIDs, len \in PayloadLengths : Write(p, t, len)
    \/ \E p \in Producers : claimCapacity_readTail(p)
    \/ \E p \in Producers : claimCapacity_refreshHead(p)
    \/ \E p \in Producers : claimCapacity_storeHeadCache(p)
    \/ \E p \in Producers : claimCapacity_wrapRefreshHead(p)
    \/ \E p \in Producers : claimCapacity_wrapStoreHeadCache(p)
    \/ \E p \in Producers : claimCapacity_cas(p)
    \/ \E p \in Producers : claimCapacity_padding(p)
    \/ \E p \in Producers : Write_header(p)
    \/ \E p \in Producers : Write_payload(p)
    \/ \E p \in Producers : Write_publish(p)
    \/ ConsumerRead

Spec == Init /\ [][Next]_vars

\* the same with a caller of ManyToOne.Read
NextRead ==
    \/ Next
    \/ Read

SpecRead == Init /\ [][NextRead]_vars

\* every producer that has entered Write keeps taking its steps
FairSpec ==
    /\ Init
    /\ [][Next]_vars
    /\ \A p \in Producers :
           WF_vars(\/ claimCapacity_readTail(p)
                   \/ claimCapacity_refreshHead(p)
                   \/ claimCapacity_storeHeadCache(p)
                   \/ claimCapacity_wrapRefreshHead(p)
                   \/ claimCapacity_wrapStoreHeadCache(p)
                   \/ claimCapacity_cas(p)
                   \/ claimCapacity_padding(p)
                   \/ Write_header(p)
                   \/ Write_payload(p)
                   \/ Write_publish(p))

\* the callers of NextCorrelationID alone, from any initial counter value
InitCorr ==
    /\ InitRingBuffer
    /\ \E c \in InitialCorrelations : InitCorrelation(c)
    /\ InitImage
    /\ InitCodec(0, 0)
    /\ InitBuffer(0, 0)

NextCorr == \E c \in Callers : NextCorrelationID(c)

SpecCorr == InitCorr /\ [][NextCorr]_vars

\* the Image alone: its owner polling, every thread closing, the publisher
\* of the stream appending frames
NextImage ==
    \/ \E len \in FrameLengths : Offer(len)
    \/ \E limit \in FragmentLimits, fails \in BOOLEAN : Poll(limit, fails)
    \/ Poll_getPosition
    \/ Poll_termRead
    \/ Poll_setPosition
    \/ \E t \in Threads : Close(t)
    \/ \E t \in Threads, err \in {"nil", "error"} : Close_release(t, err)

SpecImage == Init /\ [][NextImage]_vars

\* the position codec alone, over every position and shift of the word
InitDecode ==
    /\ InitRingBuffer
    /\ InitCorrelation(0)
    /\ InitImage
    /\ \E pos \in Positions, s \in Shifts : InitCodec(pos, s)
    /\ InitBuffer(0, 0)

NextDecode == Decode

SpecCodec == InitDecode /\ [][NextDecode]_vars

\* the accessors of one buffer alone, called with any offsets
InitAccess ==
    /\ InitRingBuffer
    /\ InitCorrelation(0)
    /\ InitImage
    /\ InitCodec(0, 0)
    /\ \E len \in BufferLengths, srcLen \in BufferLengths : InitBuffer(len, srcLen)

NextAccess ==
    \/ \E index \in Indices, size \in AccessorSizes : Access(index, size)
    \/ \E index \in Indices, srcIndex \in Indices, len \in CopyLengths :
           Buffer_PutBytes(index, srcIndex, len)

SpecBuffer == InitAccess /\ [][NextAccess]_vars

----------------------------------------------------------------------------
(* Properties.                                                             *)

\* a producer whose claim succeeded and whose Write has not returned
InFlight(p) == pc[p] \in {"padding", "header", "payload", "publish"}

\* the producer's last Write succeeded and its record is not consumed yet
Visible(p) ==
    /\ pc[p] = "idle"
    /\ result[p] = "ok"
    /\ headPosition <= tail[p] + padding[p]

\* the bytes offset .. offset+size-1
ByteRange(offset, size) == {offset + k : k \in 0..(size - 1)}

\* the bytes of the record area an in-flight producer writes before it returns
WriteRange(p) ==
    IF pc[p] = "padding"
    THEN ByteRange(tailIndex(p), padding[p]) \cup ByteRange(0, requiredCapacity(p))
    ELSE ByteRange(recordIndex[p], requiredCapacity(p))

\* the bytes of the records that are published and not yet consumed
PublishedBytes == UNION {ByteRange(MaskIndex(r.pos), r.size) : r \in published}

\* C1: head <= tail and tail - head <= capacity in every reachable state,
\* under any interleaving of the producers' Write calls and the consumer.
C1_TailHeadWithinCapacity ==
    /\ headPosition <= tailPosition
    /\ tailPosition - headPosition <= capacity

\* the ring is full after a claim that wrapped, the claimant still writing
C1_Witness ==
    \E p \in Producers :
        /\ InFlight(p)
        /\ padding[p] # 0
        /\ headPosition > 0
        /\ tailPosition - headPosition = capacity

\* C2: the byte ranges two in-flight producers write to (record and padding)
\* are disjoint, and none overlaps a record published and not yet consumed;
\* every such record lies inside the record area with a positive length field.
C2_ExclusiveClaim ==
    /\ \A p, q \in Producers :
           (p # q /\ InFlight(p) /\ InFlight(q)) => WriteRange(p) \cap WriteRange(q) = {}
    /\ \A p \in Producers :
           InFlight(p) => /\ WriteRange(p) \cap PublishedBytes = {}
                          /\ WriteRange(p) \subseteq 0..(capacity - 1)
    /\ \A r \in published :
           /\ ByteRange(MaskIndex(r.pos), r.size) \subseteq 0..(capacity - 1)
           /\ GetInt32Volatile(mem, LengthOffset(MaskIndex(r.pos))) > 0
           /\ AlignInt32(GetInt32Volatile(mem, LengthOffset(MaskIndex(r.pos))),
                         RecordAlignment) = r.size
    /\ \A r1, r2 \in published :
           r1 # r2 => ByteRange(MaskIndex(r1.pos), r1.size)
                          \cap ByteRange(MaskIndex(r2.pos), r2.size) = {}

\* two producers write their payloads while a third record is published
C2_Witness ==
    \E p, q \in Producers :
        /\ p # q
        /\ pc[p] = "payload"
        /\ pc[q] = "payload"
        /\ published # {}

\* the payload bytes of p's record as the region holds them
PayloadInRegion(p) ==
    [k \in 0..(length[p] - 1) |-> mem[EncodedMsgOffset(recordIndex[p]) + k]]
\* the payload bytes p was asked to write
PayloadWritten(p) == [k \in 0..(length[p] - 1) |-> SrcBuffer(p)[k]]

\* C3: from the producer's first store to the slot until its final ordered
\* store the length field is not positive, and whenever the length field of a
\* claimed, unconsumed slot is positive the Write has returned and the region
\* holds all the payload bytes; the record the reader finds at the head with a
\* positive length is one whose final store has been made.
C3_VisibleOnlyWhenComplete ==
    /\ LET headIndex == MaskIndex(headPosition)
           len == GetInt32Volatile(mem, LengthOffset(headIndex))
       IN  (headPosition < tailPosition /\ len > 0) =>
               [pos |-> headPosition, size |-> AlignInt32(len, RecordAlignment)]
                   \in published
    /\ \A p \in Producers :
        /\ pc[p] \in {"payload", "publish"} =>
               GetInt32Volatile(mem, LengthOffset(recordIndex[p])) <= 0
        /\ (pc[p] \in {"payload", "publish"} \/ Visible(p)) =>
               (GetInt32Volatile(mem, LengthOffset(recordIndex[p])) > 0 =>
                    /\ Visible(p)
                    /\ PayloadInRegion(p) = PayloadWritten(p))
        /\ Visible(p) => GetInt32Volatile(mem, LengthOffset(recordIndex[p])) > 0

\* a producer has written its payload and not published, while the consumer
\* has already taken an earlier record
C3_Witness ==
    \E p \in Producers :
        /\ pc[p] = "publish"
        /\ length[p] > 0
        /\ headPosition > 0
        /\ PayloadInRegion(p) = PayloadWritten(p)

\* a step in which producer p calls Write
CallsWrite(p) ==
    /\ writes' = writes + 1
    /\ pc[p] = "idle"
    /\ result'[p] \in {"running", "panic"}
    /\ \A q \in Producers \ {p} :
           result'[q] = result[q] /\ length'[q] = length[q] /\ msgTypeID'[q] = msgTypeID[q]

\* C4: a Write whose payload length exceeds maxMsgLength = capacity / 8 fails
\* (the call panics) in every buffer state and leaves the tail position, the
\* head position and the record area as they were; no Write in progress and
\* no successful Write has such a length.
C4_TooLongWriteFails ==
    /\ [][\A p \in Producers :
             (CallsWrite(p) /\ length'[p] > maxMsgLength) =>
                 /\ result'[p] = "panic"
                 /\ pc'[p] = "idle"
                 /\ UNCHANGED <<tailPosition, headPosition, mem>>]_vars
    /\ [](\A p \in Producers :
             (pc[p] # "idle" \/ result[p] = "ok") => length[p] <= maxMsgLength)

\* a Write with a valid type id and a too long payload has failed on a ring
\* that holds a published record
C4_Witness ==
    \E p \in Producers :
        /\ result[p] = "panic"
        /\ msgTypeID[p] >= 1
        /\ length[p] = maxMsgLength + 1
        /\ published # {}

\* C5 as stated: a Write that fails with insufficient capacity has changed
\* nothing, the cached head field included.
C5_FailedWriteChangesNothing ==
    \A p \in Producers : result[p] = "insufficient" => touched[p] = {}

\* C5, amended: a Write that fails with insufficient capacity has changed
\* neither the tail counter, nor the head counter, nor a byte of the record
\* area; the only field it may have changed is the cached head, set to a
\* value it read from the head counter.
C5_FailedWriteKeepsTailHeadRecords ==
    \A p \in Producers :
        result[p] = "insufficient" =>
            /\ touched[p] \subseteq {"headCache"}
            /\ head[p] <= headPosition
            /\ recordIndex[p] = InsufficientCapacity

\* a Write failed on the wrap-around check after refreshing the cached head
C5_Witness ==
    \E p \in Producers :
        /\ result[p] = "insufficient"
        /\ touched[p] = {"headCache"}
        /\ requiredCapacity(p) > toBufferEndLength(p)

\* the length and type fields of p's record as the region holds them
LengthField(p) == GetInt32Volatile(mem, LengthOffset(recordIndex[p]))
TypeField(p) == GetInt32Volatile(mem, TypeOffset(recordIndex[p]))

\* C6 as stated: the published header holds the payload length L, header
\* excluded, and the type id T.
C6_LengthFieldIsPayloadLength ==
    \A p \in Producers :
        Visible(p) => (LengthField(p) = length[p] /\ TypeField(p) = msgTypeID[p])

\* C6, amended: the published header holds the record length L + HeaderLength
\* (the payload length plus the 8 bytes of the header) and the type id T.
C6_LengthFieldIsRecordLength ==
    \A p \in Producers :
        Visible(p) =>
            (LengthField(p) = length[p] + HeaderLength /\ TypeField(p) = msgTypeID[p])

\* a record with a payload of maxMsgLength bytes is published and unconsumed
C6_Witness ==
    \E p \in Producers :
        /\ Visible(p)
        /\ length[p] = maxMsgLength
        /\ recordIndex[p] > 0

\* a step in which p's CAS of the tail succeeds
ClaimSucceeds(p) == pc[p] = "cas" /\ pc'[p] \in {"padding", "header"}
\* a step in which p's CAS of the tail fails and the loop runs again
ClaimRetries(p) == pc[p] = "cas" /\ pc'[p] = "loop"

\* the padding record p's claim made, as long as the consumer has not taken it
PaddingPending(p) ==
    /\ padding[p] # 0
    /\ pc[p] \in {"header", "payload", "publish"} \/ Visible(p)
    /\ headPosition <= tail[p]

\* C7: a successful claim whose aligned record does not fit between the
\* tail's offset and the physical end advances the tail by requiredCapacity +
\* padding with padding = capacity - tailIndex, stores a padding header
\* (length = padding, type = padding type id) at the pre-wrap tail offset and
\* writes the message record from offset 0; past the padding record the next
\* record the reader meets starts at offset 0.
C7_WrapPadsToEndAndRestartsAtZero ==
    /\ [][\A p \in Producers :
             (ClaimSucceeds(p) /\ requiredCapacity(p) > capacity - MaskIndex(tail[p])) =>
                 /\ padding[p] = capacity - MaskIndex(tail[p])
                 /\ tailPosition' = tail[p] + requiredCapacity(p) + padding[p]
                 /\ pc'[p] = "padding"]_vars
    /\ [](\A p \in Producers :
             /\ (pc[p] \in {"header", "payload", "publish"} /\ padding[p] # 0) =>
                    recordIndex[p] = 0
             /\ (Visible(p) /\ padding[p] # 0) =>
                    (recordIndex[p] = 0 /\ LengthField(p) = recordLength(p))
             /\ PaddingPending(p) =>
                    /\ GetInt32Volatile(mem, LengthOffset(tailIndex(p))) = padding[p]
                    /\ GetInt32Volatile(mem, TypeOffset(tailIndex(p))) = PaddingMsgTypeID
                    /\ MaskIndex(tail[p] + padding[p]) = 0)
    /\ [][(headPosition' # headPosition
             /\ GetInt32Volatile(mem, TypeOffset(MaskIndex(headPosition))) = PaddingMsgTypeID)
          => MaskIndex(headPosition') = 0]_vars

\* a wrapped Write has returned; its padding record and its message record
\* at offset 0 are both published and unconsumed
C7_Witness ==
    \E p \in Producers :
        /\ Visible(p)
        /\ PaddingPending(p)
        /\ recordIndex[p] = 0
        /\ tailIndex(p) > 0

\* C8: a Read that follows a successful Write, the written record being the
\* only one pending, returns after handing the record to the handler and
\* leaves the consumer position equal to the producer position.
C8_ReadHandsBackWrittenMessage ==
    [][(/\ readOutcome = "notcalled"
        /\ readOutcome' # "notcalled"
        /\ \E p \in Producers :
               /\ Visible(p)
               /\ headPosition = tail[p] + padding[p]
               /\ tailPosition = headPosition + requiredCapacity(p))
       => (readOutcome' = "returned" /\ headPosition' = tailPosition')]_vars

\* C9: the CAS loop of claimCapacity runs again only when another producer
\* has advanced the tail since this producer read it; the tail is changed by
\* nothing but a producer's successful CAS (never by the consumer); and, the
\* Write calls being finitely many, every Write that has been entered returns:
\* from some point on no producer is inside Write.
C9_WriteNeverBlocks ==
    /\ [][\A p \in Producers : ClaimRetries(p) => tailPosition > tail[p]]_vars
    /\ [][tailPosition' # tailPosition =>
             \E q \in Producers : ClaimSucceeds(q) /\ tailPosition' > tailPosition]_vars
    /\ <>[](\A p \in Producers : pc[p] = "idle")

\* a producer is sent round the loop again by the other producer's claim
C9_Witness ==
    \E p, q \in Producers :
        /\ p # q
        /\ pc[p] = "loop"
        /\ tail[p] < tailPosition
        /\ InFlight(q)
        /\ tail[q] = tail[p]

\* the values NextCorrelationID has returned to all callers
ReturnedIDs ==
    UNION {{correlationIDs[c][i] : i \in 1..Len(correlationIDs[c])} : c \in Callers}

\* C10: the calls of NextCorrelationID return, each once, the values the
\* counter held before each increment (initial value up to the counter - 1):
\* no value is returned twice, to one caller or to two, and the values
\* returned to one caller are strictly increasing.
C10_CorrelationIDsUniqueIncreasing ==
    /\ ReturnedIDs = correlationInitial..(correlationCounter - 1)
    /\ \A c, d \in Callers :
           \A i \in 1..Len(correlationIDs[c]), j \in 1..Len(correlationIDs[d]) :
               (c # d \/ i # j) => correlationIDs[c][i] # correlationIDs[d][j]
    /\ \A c \in Callers :
           \A i, j \in 1..Len(correlationIDs[c]) :
               i < j => correlationIDs[c][i] < correlationIDs[c][j]

\* two callers have interleaved, each holding two ids
C10_Witness ==
    \E c, d \in Callers :
        /\ c # d
        /\ Len(correlationIDs[c]) >= 2
        /\ Len(correlationIDs[d]) >= 2
        /\ correlationIDs[c][1] < correlationIDs[d][1]
        /\ correlationIDs[d][1] < correlationIDs[c][2]

\* the threads that have won the closing CAS and not yet released the log
Releasing == {t \in Threads : ipc[t] = "release"}

\* C11: Close is a one-shot Open -> Closed transition: the log buffers are
\* released at most once, by the one Close call whose CAS set the flag, and
\* exactly once when that call has returned; the flag never goes back to
\* open; a Close call that finds the flag set performs no release and
\* returns the nil error.
C11_CloseReleasesOnce ==
    /\ [](Cardinality(Releasing) + releases = IF isClosed THEN 1 ELSE 0)
    /\ [][isClosed => isClosed']_vars
    /\ [][\A t \in Threads :
             (isClosed /\ ipc[t] = "idle" /\ closeOutcome'[t] # closeOutcome[t]) =>
                 /\ closeOutcome'[t] = "nil"
                 /\ ipc'[t] = "idle"
                 /\ releases' = releases]_vars

\* one Close has released the log and returned the release's error; another
\* Close has found the image closed and returned nil
C11_Witness ==
    \E t, u \in Threads :
        /\ t # u
        /\ closeOutcome[t] = "error"
        /\ closeOutcome[u] = "nil"
        /\ releases = 1
        /\ isClosed

\* C12: a Poll that starts when the closed flag is set (so every Poll that
\* starts after a Close has completed) returns ImageClosed at once: it makes
\* no handler call, leaves the subscriber position as it was and never
\* reaches the read of a partition.
C12_PollAfterCloseReturnsClosed ==
    /\ [][(polls' = polls + 1 /\ isClosed) =>
             /\ pollOutcome' = "returned"
             /\ pollResult' = ImageClosed
             /\ ipc'[Owner] = "idle"
             /\ handlerCalls' = 0
             /\ subscriberPosition' = subscriberPosition]_vars
    /\ []((pollOutcome = "returned" /\ pollResult = ImageClosed) => handlerCalls = 0)

\* a Poll has returned ImageClosed on a released image although a frame was
\* published at the subscriber position
C12_Witness ==
    /\ pollOutcome = "returned"
    /\ pollResult = ImageClosed
    /\ releases = 1
    /\ HasFrame(subscriberPosition)
    /\ ~FrameAt(subscriberPosition).padding

\* C13: the release of the log buffers never happens between a Poll's check
\* of the closed flag and its last access to a partition or to the
\* subscriber position: while a Poll is past the check, nothing is released.
C13_NoReleaseDuringPoll ==
    ipc[Owner] \in {"getPosition", "termRead", "setPosition"} => releases = 0

\* C14: the subscriber position never decreases.  A Poll with fragmentLimit
\* = 0 or with no frame published at its position makes no handler call and
\* leaves the position unchanged; a Poll that finds one data frame at its
\* position (fragmentLimit = 1, or nothing published behind the frame) calls
\* the handler exactly once and consumes the frame's aligned length; a Poll
\* that consumed b > 0 bytes sets the position to the old position + b.
C14_PositionAdvancesByConsumed ==
    /\ [][subscriberPosition' >= subscriberPosition]_vars
    /\ [][(ipc[Owner] = "termRead" /\ ipc'[Owner] = "setPosition") =>
             LET termOffset == TermOffset(position, termLengthMask)
             IN  /\ pollResult' = handlerCalls'
                 /\ (fragmentLimit = 0 \/ ~HasFrame(position)) =>
                        (handlerCalls' = 0 /\ pollOffset' = termOffset)
                 /\ (/\ fragmentLimit >= 1
                     /\ HasFrame(position)
                     /\ ~FrameAt(position).padding
                     /\ \/ fragmentLimit = 1
                        \/ ~HasFrame(position + FrameAt(position).len)) =>
                        /\ handlerCalls' = 1
                        /\ pollOffset' - termOffset = FrameAt(position).len]_vars
    /\ [][(ipc[Owner] = "setPosition" /\ ipc'[Owner] = "idle") =>
             LET b == pollOffset - TermOffset(position, termLengthMask)
             IN  /\ position = subscriberPosition
                 /\ b >= 0
                 /\ b > 0 => subscriberPosition' = subscriberPosition + b
                 /\ b = 0 => subscriberPosition' = subscriberPosition]_vars

\* a Poll on the open image, started inside a term, has handed one frame of
\* 24 bytes to the handler and moved the position by 24
C14_Witness ==
    /\ ~isClosed
    /\ pollOutcome = "returned"
    /\ pollResult = 1
    /\ handlerCalls = 1
    /\ position > 0
    /\ TermOffset(position, termLengthMask) > 0
    /\ subscriberPosition = position + 24

\* C15: when the handler fails during a Poll, the failure is caught at the
\* Poll boundary and handed to the Image's exceptionHandler, and the Poll
\* returns normally.
C15_HandlerFailureForwarded ==
    (ipc[Owner] = "idle" /\ handlerFails /\ handlerCalls >= 1) =>
        (pollOutcome = "returned" /\ exceptionHandlerCalls >= 1)

\* C16: for every position p >= 0 and every shift s, indexByPosition(p, s)
\* is one of 0, 1, 2; the position one partition length further on (p + 2^s
\* in the position word) has the next index of the 3-way rotation; and the
\* term count and the term offset recombine to p:
\* ((p >> s) << s) | (p & (2^s - 1)) = p.
C16_IndexRotatesAndRecombines ==
    decoded =>
        /\ decodeIndex \in 0..(PartitionCount - 1)
        /\ decodeNextIndex = (decodeIndex + 1) % PartitionCount
        /\ (ToUnsigned(decodePosition) \div (2 ^ decodeShift)) * (2 ^ decodeShift)
               + decodeTermOffset = decodePosition
        /\ decodeTermOffset \in 0..(2 ^ decodeShift - 1)

\* a position in the last partition of the rotation, inside the term, whose
\* successor one partition length on is in partition 0
C16_Witness ==
    /\ decoded
    /\ decodeShift = positionBitsToShift
    /\ decodeIndex = 2
    /\ decodeNextIndex = 0
    /\ decodeTermOffset > 0

\* C17: an accessor touches memory only when offset + size <= length, for
\* the destination and, in a bulk copy, for the source as well; every other
\* access is fatal instead of being performed.
C17_AccessWithinBounds ==
    accessOutcome = "performed" =>
        /\ accessIndex <= bufLength - accessSize
        /\ accessOp = "PutBytes" => accessSrcIndex <= srcLength - accessSize

\* the stream positions a producer's successful claim covers
ClaimStart(p) == tail[p]
ClaimEnd(p) == tail[p] + requiredCapacity(p) + padding[p]

\* C18: a successful claim replaces the tail value t it read by t +
\* requiredCapacity + padding, so the claims cover adjoining ranges of
\* positions in the order of their CAS: the tail is changed by nothing but a
\* successful CAS, which increases it (a failed claim leaves it alone), the
\* ranges of two claims in flight are disjoint, and each ends at or below
\* the tail.
C18_ClaimsTotallyOrdered ==
    /\ [][\A p \in Producers :
             ClaimSucceeds(p) =>
                 /\ tailPosition = ClaimStart(p)
                 /\ tailPosition' = ClaimEnd(p)
                 /\ ClaimEnd(p) > ClaimStart(p)]_vars
    /\ [][tailPosition' # tailPosition =>
             /\ tailPosition' > tailPosition
             /\ \E q \in Producers : ClaimSucceeds(q)]_vars
    /\ [][\A p \in Producers :
             (ClaimRetries(p) \/ (result[p] = "running" /\ result'[p] = "insufficient")) =>
                 tailPosition' = tailPosition]_vars
    /\ [](\A p \in Producers :
             InFlight(p) =>
                 /\ ClaimEnd(p) <= tailPosition
                 /\ \A q \in Producers \ {p} :
                        InFlight(q) =>
                            (ClaimEnd(p) <= ClaimStart(q) \/ ClaimEnd(q) <= ClaimStart(p)))

\* two claims are in flight behind a record the consumer has taken, the
\* second starting where the first ended, the tail at the end of the second
C18_Witness ==
    \E p, q \in Producers :
        /\ p # q
        /\ InFlight(p)
        /\ InFlight(q)
        /\ headPosition > 0
        /\ ClaimStart(q) = ClaimEnd(p)
        /\ tailPosition = ClaimEnd(q)

\* C19: the cached head never exceeds the head counter, which never exceeds
\* the tail; the head a producer computes with (read from the cache or from
\* the counter) is never ahead of the counter either, so the free space
\* computed from it is never more than the space really free.
C19_HeadCacheBehindHead ==
    /\ headCachePosition <= headPosition
    /\ headPosition <= tailPosition
    /\ \A p \in Producers :
           pc[p] # "idle" =>
               /\ head[p] <= headPosition
               /\ availableCapacity(tailPosition, head[p])
                      <= availableCapacity(tailPosition, headPosition)

\* the cache has been refreshed to a head the consumer has since left
\* behind, and a producer is computing with the stale cached value
C19_Witness ==
    \E p \in Producers :
        /\ headCachePosition > 0
        /\ headCachePosition < headPosition
        /\ pc[p] = "loop"
        /\ head[p] = headCachePosition

\* C20: the tail counter is a multiple of the record alignment, and every
\* index a successful claimCapacity returned is a multiple of the alignment
\* with recordIndex + requiredCapacity <= capacity: header and payload of a
\* record lie inside the record area, below the trailer.
C20_ClaimedIndexAlignedInside ==
    /\ tailPosition % RecordAlignment = 0
    /\ \A p \in Producers :
           (pc[p] \in {"header", "payload", "publish"} \/ Visible(p)) =>
               /\ recordIndex[p] >= 0
               /\ recordIndex[p] % RecordAlignment = 0
               /\ recordIndex[p] + requiredCapacity(p) <= capacity
               /\ EncodedMsgOffset(recordIndex[p]) + length[p] <= capacity

\* a record with a payload has been claimed that ends exactly at the
\* physical end of the record area
C20_Witness ==
    \E p \in Producers :
        /\ pc[p] = "publish"
        /\ length[p] > 0
        /\ recordIndex[p] > 0
        /\ recordIndex[p] + requiredCapacity(p) = capacity

\* C21: a Write with a valid type id and a payload of at most maxMsgLength
\* bytes never fails with insufficient capacity on an empty ring: no Write
\* returns false having read the current tail and a head equal to it while
\* no other producer is inside Write.
C21_EmptyRingAcceptsWrite ==
    [][\A p \in Producers :
          ~(/\ result[p] = "running"
            /\ result'[p] = "insufficient"
            /\ msgTypeID[p] >= 1
            /\ length[p] <= maxMsgLength
            /\ headPosition = tailPosition
            /\ tail[p] = tailPosition
            /\ \A q \in Producers \ {p} : pc[q] = "idle")]_vars

====
